---- MODULE Spec2Model ----
(***************************************************************************)
(* The useLayers hook of prism-app (src/unnamed/part_000): the selectable  *)
(* dates of the active layers, and the four effects that reconcile the     *)
(* URL, the layer store and the selected date.                             *)
(*                                                                         *)
(* Time is counted in hours since an epoch day 0: a timestamp is           *)
(* day * HoursPerDay + hour.  A "YYYY-MM-DD" string is modelled by its day *)
(* number, so formatting (timestamp -> day) and parsing (day -> midnight   *)
(* timestamp) are different conversions, as in the code.                   *)
(***************************************************************************)
EXTENDS Integers, Sequences, FiniteSets, TLC

VARIABLES
    layers,                \* layersSelector: the store's selected layers (ids), unsorted
    selectedDate,          \* dateRangeSelector.startDate (Undefined when not set)
    serverAvailableDates,  \* availableDatesSelector: layer key -> sorted DateItem list
    url,                   \* urlParams: [hazard, baseline: Seq(id), date: date string]
    defaultLayerAttempted, \* useState(false)
    defaultLayer,          \* appConfig.defaultLayer
    rendered,              \* the values captured by the last render
    pending,               \* effects of the last render still to run, in order
    notifications,         \* addNotification payloads dispatched by the last step
    calls,                 \* candidate lists passed to findClosestDate by the last step
    last,                  \* the step that ran last
    inputs,                \* how many user actions there were
    failed                 \* an effect threw (TypeError), the view is gone

vars == <<layers, selectedDate, serverAvailableDates, url, defaultLayerAttempted,
          defaultLayer, rendered, pending, notifications, calls, last, inputs,
          failed>>

-----------------------------------------------------------------------------
(* Bounds of the model *)

MaxDay == 3
MaxUrlLayers == 2
MaxInputs == 1

(* Values of the program *)

HoursPerDay == 24
NoonHour == 12
Undefined == 0
NullDate == 0
InvalidDateStr == -1
NaN == -2

Days == 1..MaxDay
Today == MaxDay

Midnight(day) == day * HoursPerDay
Midday(day) == day * HoursPerDay + NoonHour

Abs(x) == IF x < 0 THEN -x ELSE x

Range(s) == {s[i] : i \in DOMAIN s}

-----------------------------------------------------------------------------
(* Dates *)

\* new Date(ts).toISOString().slice(0, 10): the calendar day of a timestamp
isoDay(ts) == ts \div HoursPerDay

\* a conversion that keeps the time of day it was given
keepsTimeOfDay(ts) == ts

\* new Date(x).setUTCHours(12, 0, 0, 0); NaN for an invalid date
setUTCHours12(ts) == IF ts = NaN THEN NaN ELSE isoDay(ts) * HoursPerDay + NoonHour

\* new Date("YYYY-MM-DD"): midnight UTC of the day, an invalid date otherwise
parseDate(str) == IF str \in Days THEN Midnight(str) ELSE NaN

getTimeInMilliseconds(str) == parseDate(str)

getFormattedDate(ts) == isoDay(ts)

datesAreEqualWithoutTime(a, b) == isoDay(a) = isoDay(b)

\* binary search of target among key(list[i]), the list sorted by key
RECURSIVE binarySearch(_, _, _, _)
binarySearch(keys, target, lo, hi) ==
    IF lo > hi THEN FALSE
    ELSE LET mid == (lo + hi) \div 2
         IN  IF keys[mid] = target THEN TRUE
             ELSE IF keys[mid] < target
                  THEN binarySearch(keys, target, mid + 1, hi)
                  ELSE binarySearch(keys, target, lo, mid - 1)

binaryIncludes(list, target) ==
    binarySearch([i \in DOMAIN list |-> setUTCHours12(list[i])], target, 1, Len(list))

\* the candidates closest to date; the date itself for an empty list;
\* which of two equally distant candidates wins is left open
findClosestDate(date, candidates) ==
    IF candidates = <<>> THEN {date}
    ELSE {c \in Range(candidates) :
            \A d \in Range(candidates) : Abs(c - date) <= Abs(d - date)}

-----------------------------------------------------------------------------
(* Layer Registry *)

LayerKeys == {"boundary", "point", "wms1", "wms2", "adm"}

LayerDefinitions ==
    [id \in LayerKeys |->
        CASE id = "boundary" -> [type |-> "boundary", dates |-> FALSE]
          [] id = "point"    -> [type |-> "point_data", dates |-> FALSE]
          [] id = "adm"      -> [type |-> "admin_level_data", dates |-> FALSE]
          [] OTHER           -> [type |-> "wms", dates |-> FALSE]]

dateSupportLayerTypes == {"impact", "point_data", "wms", "static_raster"}

typeOf(id) == LayerDefinitions[id].type

\* getUrlKey: admin level layers live under the baseline key, the rest under hazard
getUrlKey(id) == IF typeOf(id) = "admin_level_data" THEN "baseline" ELSE "hazard"

\* layerOrdering: boundary first, then point_data, then the rest; the sort is stable
layerRank(id) ==
    CASE typeOf(id) = "boundary" -> 0
      [] typeOf(id) = "point_data" -> 1
      [] OTHER -> 2

isMainLayer(id, ls) == id \in LayerKeys

getPossibleDatesForLayer(id, table) ==
    IF id \in DOMAIN table THEN table[id] ELSE <<>>

-----------------------------------------------------------------------------
(* The memoized values of useLayers, as functions of what a render captured *)

EmptyTable == [k \in {} |-> <<>>]

\* [...unsortedSelectedLayers].sort(layerOrdering)
selectedLayers(ls) ==
    SelectSeq(ls, LAMBDA id : layerRank(id) = 0)
        \o SelectSeq(ls, LAMBDA id : layerRank(id) = 1)
        \o SelectSeq(ls, LAMBDA id : layerRank(id) = 2)

supportsDates(id, table) ==
    IF typeOf(id) \in {"admin_level_data", "static_raster"}
    THEN LayerDefinitions[id].dates
    ELSE IF typeOf(id) = "wms"
         THEN id \in DOMAIN table
         ELSE typeOf(id) \in dateSupportLayerTypes

selectedLayersWithDateSupport(ls, table) ==
    SelectSeq(selectedLayers(ls),
              LAMBDA id : supportsDates(id, table) /\ isMainLayer(id, ls))

\* the DateItems of all the date supporting layers, flattened, as calendar days
RECURSIVE flatDays(_, _)
flatDays(ids, table) ==
    IF ids = <<>> THEN <<>>
    ELSE LET items == getPossibleDatesForLayer(Head(ids), table)
         IN  [i \in DOMAIN items |-> isoDay(items[i])] \o flatDays(Tail(ids), table)

\* countBy: how many times each calendar day occurs
countOf(day, days) == Cardinality({i \in DOMAIN days : days[i] = day})

selectedLayerDatesDupCount(ls, table) ==
    LET days == flatDays(selectedLayersWithDateSupport(ls, table), table)
    IN  [day \in Range(days) |-> countOf(day, days)]

\* the keys of an object, in the order of their first insertion (the list is
\* bound once, as the value v)
firstOccurrences(days) ==
    CHOOSE keys \in
        { LET kept == SelectSeq([i \in DOMAIN v |-> i],
                                LAMBDA i : \A j \in 1..(i - 1) : v[j] # v[i])
          IN  [k \in DOMAIN kept |-> v[kept[k]]] : v \in {days} } : TRUE

\* the day is kept when it was counted at least once per date supporting layer
enoughDuplicates(dupTimes, nLayers) == dupTimes >= nLayers

selectedLayerDates(ls, table) ==
    LET withDates == selectedLayersWithDateSupport(ls, table)
        counts == selectedLayerDatesDupCount(ls, table)
        keys == firstOccurrences(flatDays(withDates, table))
        picked == SelectSeq(keys, LAMBDA day : enoughDuplicates(counts[day], Len(withDates)))
    IN  IF Len(withDates) = 0 THEN <<>>
        ELSE \* .map over the picked keys, bound once as the value p
             CHOOSE dates \in
                 { [i \in DOMAIN p |-> setUTCHours12(parseDate(p[i]))] : p \in {picked} } : TRUE

urlLayerIds(u) == u.hazard \o u.baseline

selectedLayersIds(ls) == selectedLayers(ls)

missingLayers(u, ls) ==
    SelectSeq(urlLayerIds(u), LAMBDA id : id \notin Range(selectedLayersIds(ls)))

invalidLayersIds(u) == SelectSeq(urlLayerIds(u), LAMBDA id : id \notin LayerKeys)

serverAvailableDatesAreEmpty(table) == DOMAIN table = {}

\* a date integer that is always one day off the URL's date
dateIntOfAnotherDay(urlDate) ==
    IF urlDate \in Days THEN Midday((urlDate % MaxDay) + 1) ELSE NaN

\* (urlDate ? new Date(urlDate) : new Date()).setUTCHours(12, 0, 0, 0)
dateInt(urlDate) ==
    setUTCHours12(IF urlDate # NullDate THEN parseDate(urlDate) ELSE Midnight(Today))

possibleDatesForLayerIncludeSelectedDate(id, date, table) ==
    binaryIncludes(getPossibleDatesForLayer(id, table), setUTCHours12(date))

-----------------------------------------------------------------------------
(* The collaborators' operations *)

NoDefault == ""

Note(type, kind, layer) == [type |-> type, kind |-> kind, layer |-> layer]

\* useUrlHistory.updateHistory(key, value)
updateHistory(u, key, value) == [u EXCEPT ![key] = value]

\* useUrlHistory.removeLayerFromUrl(urlLayerKey, layerId)
removeLayerFromUrl(u, key, id) ==
    [u EXCEPT ![key] = SelectSeq(u[key], LAMBDA x : x # id)]

\* mapStateSlice reducers
addLayer(ls, id) == SelectSeq(ls, LAMBDA x : x # id) \o <<id>>

removeLayer(ls, id) == SelectSeq(ls, LAMBDA x : x # id)

\* checkLayerAvailableDatesAndContinueOrRemove throws for a layer whose entry in
\* the server table is an empty list, after removing it from the URL
hasNoAvailableDates(id, table) == id \in DOMAIN table /\ table[id] = <<>>

\* addMissingLayers: missingLayers.forEach over the store, the URL and the
\* notifications so far
RECURSIVE addMissingLayers(_, _, _)
addMissingLayers(ids, table, acc) ==
    IF ids = <<>> THEN acc
    ELSE LET id == Head(ids)
             next ==
                IF hasNoAvailableDates(id, table)
                THEN [acc EXCEPT
                        !.url = removeLayerFromUrl(acc.url, getUrlKey(id), id),
                        !.notes = Append(acc.notes, Note("warning", "NoAvailableDates", id))]
                ELSE [acc EXCEPT !.layers = addLayer(acc.layers, id)]
         IN  addMissingLayers(Tail(ids), table, next)

-----------------------------------------------------------------------------
(* Rendering *)

Current ==
    [url |-> url, layers |-> layers, dates |-> serverAvailableDates,
     selectedDate |-> selectedDate, attempted |-> defaultLayerAttempted]

Effects == <<"default", "sync", "overlap", "closest">>

\* the effects whose dependency lists changed between two renders
depsChanged(effect, old, new) ==
    IF effect = "default"
    THEN old.url # new.url \/ old.attempted # new.attempted
    ELSE old.url # new.url \/ old.layers # new.layers \/ old.dates # new.dates
            \/ old.selectedDate # new.selectedDate

Settled == pending = <<>> /\ rendered = Current

Render ==
    /\ ~failed
    /\ pending = <<>>
    /\ rendered # Current
    /\ rendered' = Current
    /\ pending' = SelectSeq(Effects, LAMBDA e : depsChanged(e, rendered, Current))
    /\ notifications' = <<>>
    /\ calls' = <<>>
    /\ last' = "render"
    /\ UNCHANGED <<layers, selectedDate, serverAvailableDates, url,
                   defaultLayerAttempted, defaultLayer, inputs, failed>>

Runs(effect) ==
    /\ ~failed
    /\ pending # <<>>
    /\ Head(pending) = effect
    /\ pending' = Tail(pending)
    /\ last' = effect
    /\ UNCHANGED <<serverAvailableDates, defaultLayer, rendered, inputs>>

-----------------------------------------------------------------------------
(* The effects; each reads what the render captured and writes the store,  *)
(* the URL and the notification channel                                    *)

\* a default-layer effect that forgets what it has attempted and what the
\* URL carries
DefaultLayerEffectRetrying ==
    /\ Runs("default")
    /\ calls' = <<>>
    /\ UNCHANGED <<layers, selectedDate, failed>>
    /\ IF defaultLayer = NoDefault
       THEN /\ notifications' = <<>>
            /\ UNCHANGED <<url, defaultLayerAttempted>>
       ELSE IF defaultLayer \in LayerKeys
       THEN /\ defaultLayerAttempted' = TRUE
            /\ url' = updateHistory(url, getUrlKey(defaultLayer), <<defaultLayer>>)
            /\ notifications' = <<>>
       ELSE /\ notifications' = <<Note("error", "InvalidDefaultLayer", defaultLayer)>>
            /\ defaultLayerAttempted' = TRUE
            /\ url' = url

\* useEffect at lines 169-212
DefaultLayerEffect ==
    /\ Runs("default")
    /\ calls' = <<>>
    /\ UNCHANGED <<layers, selectedDate, failed>>
    /\ IF rendered.url.hazard # <<>> \/ rendered.url.baseline # <<>>
       THEN /\ notifications' = <<>>
            /\ UNCHANGED <<url, defaultLayerAttempted>>
       ELSE IF defaultLayer = NoDefault
       THEN /\ notifications' = <<>>
            /\ UNCHANGED <<url, defaultLayerAttempted>>
       ELSE IF ~rendered.attempted /\ defaultLayer \in LayerKeys
       THEN /\ defaultLayerAttempted' = TRUE
            /\ url' = updateHistory(url, getUrlKey(defaultLayer), <<defaultLayer>>)
            /\ notifications' = <<>>
       ELSE IF ~rendered.attempted
       THEN /\ notifications' = <<Note("error", "InvalidDefaultLayer", defaultLayer)>>
            /\ defaultLayerAttempted' = TRUE
            /\ url' = url
       ELSE /\ notifications' = <<>>
            /\ UNCHANGED <<url, defaultLayerAttempted>>

\* a guard that forgets to wait for the server table
syncIgnoresTable(r) ==
    r.url.hazard = <<>> /\ r.url.baseline = <<>>

\* a guard that forgets to look for layer ids in the URL
syncIgnoresUrlIds(r) ==
    serverAvailableDatesAreEmpty(r.dates)

\* the guard of the url sync effect, lines 257-262
syncIsIdle(r) ==
    (r.url.hazard = <<>> /\ r.url.baseline = <<>>)
        \/ serverAvailableDatesAreEmpty(r.dates)

\* useEffect at lines 256-305
UrlSyncEffect ==
    /\ Runs("sync")
    /\ calls' = <<>>
    /\ UNCHANGED <<defaultLayerAttempted, failed>>
    /\ LET r == rendered
           added == addMissingLayers(missingLayers(r.url, r.layers), r.dates,
                                     [layers |-> layers, url |-> url, notes |-> <<>>])
       IN  IF syncIsIdle(r)
           THEN /\ notifications' = <<>>
                /\ UNCHANGED <<layers, url, selectedDate>>
           ELSE IF Len(invalidLayersIds(r.url)) > 0
           THEN /\ notifications' = <<Note("error", "InvalidLayer", Head(invalidLayersIds(r.url)))>>
                /\ UNCHANGED <<layers, url, selectedDate>>
           ELSE /\ layers' = added.layers
                /\ IF r.url.date = NullDate \/ dateInt(r.url.date) = r.selectedDate
                   THEN /\ url' = added.url
                        /\ selectedDate' = selectedDate
                        /\ notifications' = added.notes
                   ELSE IF dateInt(r.url.date) # NaN
                   THEN /\ selectedDate' = dateInt(r.url.date)
                        /\ url' = updateHistory(added.url, "date",
                                                getFormattedDate(dateInt(r.url.date)))
                        /\ notifications' = added.notes
                   ELSE /\ url' = added.url
                        /\ selectedDate' = selectedDate
                        /\ notifications' =
                              Append(added.notes, Note("warning", "InvalidDate", ""))

\* a guard that forgets to look for date supporting layers
noOverlapWithoutLayers(r) ==
    ~(Len(selectedLayerDates(r.layers, r.dates)) # 0
        \/ r.selectedDate = Undefined)

\* the guard of the no-overlap effect, lines 340-346
noOverlap(r) ==
    ~(Len(selectedLayerDates(r.layers, r.dates)) # 0
        \/ Len(selectedLayersWithDateSupport(r.layers, r.dates)) = 0
        \/ r.selectedDate = Undefined)

\* useEffect at lines 339-366, with removeLayerAndUpdateHistory (lines 307-336)
NoOverlapEffect ==
    /\ Runs("overlap")
    /\ UNCHANGED <<defaultLayerAttempted, selectedDate>>
    /\ LET r == rendered
           sorted == selectedLayers(r.layers)
           n == Len(sorted)
       IN  IF ~noOverlap(r)
           THEN /\ notifications' = <<>>
                /\ calls' = <<>>
                /\ UNCHANGED <<layers, url, failed>>
           ELSE IF n < 2
           THEN \* layerToRemove is undefined: layerToRemove.id throws
                /\ failed' = TRUE
                /\ notifications' = <<>>
                /\ calls' = <<>>
                /\ UNCHANGED <<layers, url>>
           ELSE LET layerToRemove == sorted[n - 1]
                    layerToKeep == sorted[n]
                    layerToKeepDates == getPossibleDatesForLayer(layerToKeep, r.dates)
                IN  /\ notifications' = <<Note("warning", "NoOverlap", layerToRemove)>>
                    /\ layers' = removeLayer(layers, layerToRemove)
                    /\ calls' = <<layerToKeepDates>>
                    /\ failed' = failed
                    /\ \E closestDate \in findClosestDate(r.selectedDate, layerToKeepDates) :
                          url' = updateHistory(
                                    removeLayerFromUrl(url, getUrlKey(layerToRemove), layerToRemove),
                                    "date", getFormattedDate(closestDate))

\* the guard of the closest-date effect, lines 380-386
closestIsIdle(r) ==
    \/ r.selectedDate = Undefined
    \/ r.url.date = NullDate
    \/ getTimeInMilliseconds(r.url.date) = r.selectedDate

\* a forEach that stops at the first layer without the selected date
firstLayerWithoutSelectedDate(r) ==
    LET all == SelectSeq(selectedLayersWithDateSupport(r.layers, r.dates),
                         LAMBDA id : ~(serverAvailableDatesAreEmpty(r.dates)
                                       \/ possibleDatesForLayerIncludeSelectedDate(
                                               id, r.selectedDate, r.dates)))
    IN  IF all = <<>> THEN <<>> ELSE <<Head(all)>>

\* the layers for which the forEach body goes past its early return, lines 390-395
layersWithoutSelectedDate(r) ==
    SelectSeq(selectedLayersWithDateSupport(r.layers, r.dates),
              LAMBDA id : ~(serverAvailableDatesAreEmpty(r.dates)
                            \/ possibleDatesForLayerIncludeSelectedDate(
                                    id, r.selectedDate, r.dates)))

\* useEffect at lines 379-440
ClosestDateEffect ==
    /\ Runs("closest")
    /\ UNCHANGED <<defaultLayerAttempted, selectedDate, layers, failed>>
    /\ LET r == rendered
           lacking == layersWithoutSelectedDate(r)
           candidates == selectedLayerDates(r.layers, r.dates)
       IN  IF closestIsIdle(r) \/ lacking = <<>>
           THEN /\ notifications' = <<>>
                /\ calls' = <<>>
                /\ url' = url
           ELSE /\ notifications' =
                      [i \in DOMAIN lacking |-> Note("warning", "NoData", lacking[i])]
                /\ calls' = [i \in DOMAIN lacking |-> candidates]
                /\ \E closestDate \in findClosestDate(r.selectedDate, candidates) :
                      url' = IF datesAreEqualWithoutTime(r.selectedDate, closestDate)
                             THEN url
                             ELSE updateHistory(url, "date", getFormattedDate(closestDate))

-----------------------------------------------------------------------------
(* The inputs: the page's URL, the server's table, the user's actions *)

UrlIds == (LayerKeys \ {"boundary", "adm"}) \cup {"bogus"}

NoRepeats(s) == \A i, j \in DOMAIN s : s[i] = s[j] => i = j

IdLists ==
    {s \in UNION {[1..n -> UrlIds] : n \in 0..MaxUrlLayers} : NoRepeats(s)}

UrlDates == {NullDate, InvalidDateStr} \cup Days

InitialUrls ==
    {[hazard |-> h, baseline |-> b, date |-> d] :
        h \in IdLists, b \in {<<>>, <<"adm">>}, d \in UrlDates}

\* the DateItem lists a layer may have in the server's table: sorted, the
\* same day possibly twice
DateLists(key) ==
    CASE key = "wms1" -> { <<>>, <<Midday(1)>>, <<Midnight(1), Midday(1), Midday(2)>>,
                           <<Midday(1), Midday(MaxDay)>> }
      [] key = "wms2" -> { <<Midday(1), Midday(MaxDay)>>, <<Midday(2)>> }
      [] OTHER        -> { <<Midday(1)>>, <<Midday(2)>> }

TableKeys == {"point", "wms1", "wms2"}

ServerTables ==
    UNION { {t \in [keys -> UNION {DateLists(k) : k \in keys}] :
                \A k \in keys : t[k] \in DateLists(k)} :
            keys \in SUBSET TableKeys \ {{}} }

Init ==
    /\ layers = <<"boundary">>
    /\ selectedDate = Undefined
    /\ serverAvailableDates = EmptyTable
    /\ url \in {u \in InitialUrls : Len(urlLayerIds(u)) <= MaxUrlLayers}
    /\ defaultLayerAttempted = FALSE
    /\ defaultLayer \in IF urlLayerIds(url) = <<>>
                        THEN {NoDefault, "wms1", "bogus"}
                        ELSE {"wms1"}
    /\ rendered = Current
    /\ pending = Effects
    /\ notifications = <<>>
    /\ calls = <<>>
    /\ last = "mount"
    /\ inputs = 0
    /\ failed = FALSE

Input(name) ==
    /\ ~failed
    /\ Settled
    /\ last' = name
    /\ notifications' = <<>>
    /\ calls' = <<>>
    /\ UNCHANGED <<defaultLayerAttempted, defaultLayer, rendered, pending, failed>>

UserInput(name) ==
    /\ Input(name)
    /\ inputs < MaxInputs
    /\ inputs' = inputs + 1

\* the server's available dates arrive
LoadServerDates ==
    /\ Input("load")
    /\ serverAvailableDates = EmptyTable
    /\ serverAvailableDates' \in ServerTables
    /\ inputs' = inputs
    /\ UNCHANGED <<layers, selectedDate, url>>

\* the user switches a layer on: its id is appended to the URL
UserAddsLayer ==
    /\ UserInput("add")
    /\ Len(urlLayerIds(url)) < MaxUrlLayers
    /\ \E id \in LayerKeys \ ({"boundary"} \cup Range(urlLayerIds(url))) :
          url' = [url EXCEPT ![getUrlKey(id)] = Append(@, id)]
    /\ UNCHANGED <<layers, selectedDate, serverAvailableDates>>

\* the user switches a layer off: out of the URL and out of the store
UserRemovesLayer ==
    /\ UserInput("remove")
    /\ \E id \in Range(urlLayerIds(url)) \cap LayerKeys :
          /\ url' = removeLayerFromUrl(url, getUrlKey(id), id)
          /\ layers' = removeLayer(layers, id)
    /\ UNCHANGED <<selectedDate, serverAvailableDates>>

\* the user picks a date: it goes to the URL
UserSelectsDate ==
    /\ UserInput("date")
    /\ \E day \in Days : url' = updateHistory(url, "date", day)
    /\ url' # url
    /\ UNCHANGED <<layers, selectedDate, serverAvailableDates>>

\* the layer ids are taken out of the URL
UrlLayersCleared ==
    /\ UserInput("clear")
    /\ urlLayerIds(url) # <<>>
    /\ url' = [url EXCEPT !.hazard = <<>>, !.baseline = <<>>]
    /\ UNCHANGED <<layers, selectedDate, serverAvailableDates>>

\* what another component of the page dispatches to the store: a point_data
\* layer, the first day
DispatchedLayers == {"point"}

DispatchedDays == {1}

\* another component of the page dispatches to the store, in one event: it
\* adds a layer, or selects a date, or both
StoreDispatch ==
    /\ UserInput("dispatch")
    /\ \E ls \in {layers} \cup {addLayer(layers, id) : id \in DispatchedLayers \ Range(layers)},
          d \in {selectedDate} \cup {Midday(day) : day \in DispatchedDays} :
          /\ layers' = ls
          /\ selectedDate' = d
    /\ <<layers', selectedDate'>> # <<layers, selectedDate>>
    /\ UNCHANGED <<url, serverAvailableDates>>

Next ==
    \/ Render
    \/ DefaultLayerEffect
    \/ UrlSyncEffect
    \/ NoOverlapEffect
    \/ ClosestDateEffect
    \/ LoadServerDates
    \/ UserAddsLayer
    \/ UserRemovesLayer
    \/ UserSelectsDate
    \/ UrlLayersCleared
    \/ StoreDispatch

Spec == Init /\ [][Next]_vars

\* what React does on its own: it renders after a change of the store or of
\* the URL and it runs the effects that the render scheduled
Reconcile ==
    \/ Render
    \/ DefaultLayerEffect
    \/ UrlSyncEffect
    \/ NoOverlapEffect
    \/ ClosestDateEffect

\* React never leaves a render or a scheduled effect waiting for ever; the
\* inputs (the user, the server) are free to stop
FairSpec == Spec /\ WF_vars(Reconcile)

-----------------------------------------------------------------------------
(* What the claims speak of, stated apart from the code's own computation *)

\* the layers of the last render that constrain the dates, and their selectable dates
activeLayers == selectedLayersWithDateSupport(rendered.layers, rendered.dates)

selectableDates == selectedLayerDates(rendered.layers, rendered.dates)

\* the calendar days a layer has DateItems for
daysOf(id, table) ==
    {isoDay(getPossibleDatesForLayer(id, table)[i]) :
        i \in DOMAIN getPossibleDatesForLayer(id, table)}

\* the Date Intersection Result: the days every date supporting layer has
sharedDays(ls, table) ==
    {day \in Days :
        \A id \in Range(selectedLayersWithDateSupport(ls, table)) :
            day \in daysOf(id, table)}

\* the active layers that have no DateItem on the selected day, by linear scan
lackingLayers ==
    SelectSeq(activeLayers,
              LAMBDA id : isoDay(rendered.selectedDate) \notin daysOf(id, rendered.dates))

Notified(kind) == \E i \in DOMAIN notifications : notifications[i].kind = kind

-----------------------------------------------------------------------------
(* The claims *)

\* C1: when every active date supporting layer has at least one DateItem and
\* the layers share a calendar day, the selectable dates are exactly the
\* midday timestamps of the shared days, duplicates within a layer included.
C1_SelectableDatesAreTheSharedDays ==
    ( /\ activeLayers # <<>>
      /\ \A id \in Range(activeLayers) : daysOf(id, rendered.dates) # {}
      /\ sharedDays(rendered.layers, rendered.dates) # {} )
    => Range(selectableDates)
          = {Midday(day) : day \in sharedDays(rendered.layers, rendered.dates)}

\* C2: when some active date supporting layer has no DateItem at all, there
\* are no selectable dates.
C2_LayerWithoutDatesEmptiesSelectableDates ==
    (\E id \in Range(activeLayers) : daysOf(id, rendered.dates) = {})
    => selectableDates = <<>>

\* C3: once reconciliation has settled with a date supporting layer active
\* and a non-empty date intersection, the selected date is one of the shared
\* days (stated here for a selected date that is set).
C3_SettledDateIsInIntersection ==
    ( /\ Settled
      /\ ~failed
      /\ selectedDate # Undefined
      /\ selectedLayersWithDateSupport(layers, serverAvailableDates) # <<>>
      /\ sharedDays(layers, serverAvailableDates) # {} )
    => isoDay(selectedDate) \in sharedDays(layers, serverAvailableDates)

\* C4: the no-overlap resolution (warning and removal of a layer) happens
\* only with an empty date intersection and at least two date supporting
\* layers active.
C4_NoOverlapNeedsTwoDateLayers ==
    (last = "overlap" /\ Notified("NoOverlap"))
    => /\ Len(activeLayers) >= 2
       /\ sharedDays(rendered.layers, rendered.dates) = {}

\* C5: no reconciliation step fails hard: no effect ever throws.
C5_NoEffectThrows == ~failed

\* C6: with an id in the URL that the Layer Registry does not have (server
\* table non-empty), the error is notified, the valid ids of the URL that
\* have dates to load are added to the selected layers, and a parseable URL
\* date becomes the selected date.
C6_InvalidIdIsDroppedAndTheRestApplied ==
    ( /\ last = "sync"
      /\ ~syncIsIdle(rendered)
      /\ \E id \in Range(urlLayerIds(rendered.url)) : id \notin LayerKeys )
    => /\ Notified("InvalidLayer")
       /\ \A id \in Range(urlLayerIds(rendered.url)) \cap LayerKeys :
             ~hasNoAvailableDates(id, rendered.dates) => id \in Range(layers)
       /\ rendered.url.date \in Days => selectedDate = Midday(rendered.url.date)

\* C7: with an unparseable date in the URL (valid layer ids, server table
\* non-empty), the warning is notified and the selected date is a date
\* afterwards (the fallback), never the unparseable value.
C7_InvalidDateFallsBack ==
    ( /\ last = "sync"
      /\ ~syncIsIdle(rendered)
      /\ \A id \in Range(urlLayerIds(rendered.url)) : id \in LayerKeys
      /\ rendered.url.date # NullDate
      /\ rendered.url.date \notin Days )
    => /\ Notified("InvalidDate")
       /\ selectedDate # NaN
       /\ selectedDate # Undefined

\* C8: when the selected date is missing from an active date supporting layer
\* (server table non-empty, some selectable date exists), the closest-date
\* effect notifies the warning and leaves the closest selectable date in the URL.
C8_MissingDateSnapsToClosest ==
    ( /\ last = "closest"
      /\ rendered.selectedDate # Undefined
      /\ rendered.dates # EmptyTable
      /\ lackingLayers # <<>>
      /\ selectableDates # <<>> )
    => /\ Notified("NoData")
       /\ \E closest \in Range(selectableDates) :
             /\ \A other \in Range(selectableDates) :
                   Abs(closest - rendered.selectedDate) <= Abs(other - rendered.selectedDate)
             /\ url.date = getFormattedDate(closest)
             /\ isoDay(closest) # isoDay(rendered.selectedDate)

\* C9: findClosestDate is never called with an empty list of candidates.
C9_ClosestDateCandidatesNonEmpty ==
    \A i \in DOMAIN calls : calls[i] # <<>>

C11_ClearedUrlMeansNoActiveLayer ==
    last = "clear" =>
        /\ selectedLayersWithDateSupport(layers, serverAvailableDates) = <<>>
        /\ selectedLayerDates(layers, serverAvailableDates) = <<>>

\* C11 as amended: right after the layer ids are taken out of the URL, what
\* the next render captures keeps the url sync effect and the no-overlap
\* effect idle (no layer added, no warning, no removal), and the date
\* supporting layers of the store are as active as before, with the same
\* selectable dates.
C11_ClearedUrlTriggersNothing ==
    last = "clear" =>
        /\ syncIsIdle(Current)
        /\ ~noOverlap(Current)
        /\ selectedLayersWithDateSupport(layers, serverAvailableDates) = activeLayers
        /\ selectedLayerDates(layers, serverAvailableDates) = selectableDates

\* C11 witness: the layer ids were taken out of the URL while the store had
\* date supporting layers, selectable dates and a selected date
C11_ClearedWithActiveLayers ==
    /\ last = "clear"
    /\ activeLayers # <<>>
    /\ selectableDates # <<>>
    /\ selectedDate # Undefined

\* C12: with no date supporting layer active the selectable dates are the
\* empty sequence, and a run of the no-overlap effect or of the closest-date
\* effect leaves the URL and the selected layers as they were and notifies
\* nothing.
C12_NoActiveLayerNoReconciliation ==
    [][ (activeLayers' = <<>> => selectableDates' = <<>>)
        /\ ( (last' \in {"overlap", "closest"} /\ activeLayers = <<>>)
             => /\ url' = url
                /\ layers' = layers
                /\ notifications' = <<>>
                /\ failed' = failed ) ]_vars

\* C12 witness: the no-overlap effect ran with a selected date and several
\* layers in the store, none of them date supporting
C12_OverlapRanWithoutActiveLayer ==
    /\ last = "overlap"
    /\ activeLayers = <<>>
    /\ rendered.selectedDate # Undefined
    /\ Len(rendered.layers) >= 2

\* C13: a step of the no-overlap effect that resolves (it warns, or it
\* throws) removes the second-to-last of the sorted selected layers and no
\* other from the store and from the URL, keeps the last one, emits one
\* warning naming the removed layer, and sets the URL date to the date of the
\* kept layer that is closest to the selected date.
C13_ResolutionRemovesSecondToLast ==
    [][ (last' = "overlap" /\ (notifications' # <<>> \/ (failed' /\ ~failed)))
        => LET sorted == selectedLayers(rendered.layers)
               n == Len(sorted)
               keptDates == getPossibleDatesForLayer(sorted[n], rendered.dates)
           IN  /\ n >= 2
               /\ notifications' = <<Note("warning", "NoOverlap", sorted[n - 1])>>
               /\ layers' = removeLayer(layers, sorted[n - 1])
               /\ Len(layers') = Len(layers) - 1
               /\ sorted[n] \in Range(layers')
               /\ sorted[n - 1] \notin Range(urlLayerIds(url'))
               /\ \A id \in Range(urlLayerIds(url)) \ {sorted[n - 1]} :
                      id \in Range(urlLayerIds(url'))
               /\ keptDates # <<>>
               /\ url'.date \in {getFormattedDate(c) :
                                   c \in findClosestDate(rendered.selectedDate, keptDates)} ]_vars

\* C14: a run of the url sync effect while the server table is empty adds no
\* layer, changes no selected date, updates no URL parameter and notifies
\* nothing, whatever ids and date the URL carries; a run that does any of
\* these has a non-empty table.
C14_SyncWaitsForServerDates ==
    [][ (last' = "sync" /\ serverAvailableDates = EmptyTable)
        => /\ layers' = layers
           /\ selectedDate' = selectedDate
           /\ url' = url
           /\ notifications' = <<>> ]_vars

\* C14 witness: the url sync effect ran on an empty table with a URL that
\* names a layer missing from the store and an invalid layer id or date
C14_SyncRanOnEmptyTable ==
    /\ last = "sync"
    /\ serverAvailableDates = EmptyTable
    /\ missingLayers(rendered.url, rendered.layers) # <<>>
    /\ (invalidLayersIds(rendered.url) # <<>> \/ rendered.url.date = InvalidDateStr)

\* C15: every selectable date is 12:00 UTC of its calendar day, so is every
\* selected date that the url sync effect dispatches from the URL date, and
\* two of these values for the same calendar day are equal.
C15_DatesAreMiddayUTC ==
    /\ \A i \in DOMAIN selectableDates :
          selectableDates[i] = Midday(isoDay(selectableDates[i]))
    /\ (last = "sync" /\ selectedDate # rendered.selectedDate)
       => /\ selectedDate = Midday(rendered.url.date)
          /\ \A i \in DOMAIN selectableDates :
                isoDay(selectableDates[i]) = isoDay(selectedDate)
                    => selectableDates[i] = selectedDate

\* C15 witness: the url sync effect dispatched the URL's date as the selected
\* date while the selectable dates had a timestamp of the same calendar day
C15_UrlDateDispatched ==
    /\ last = "sync"
    /\ selectedDate # rendered.selectedDate
    /\ \E i \in DOMAIN selectableDates : isoDay(selectableDates[i]) = isoDay(selectedDate)

C17_RemovedLayerSupportsDates ==
    [][ (last' = "overlap" /\ notifications' # <<>>)
        => /\ notifications'[1].layer \in Range(activeLayers)
           /\ supportsDates(notifications'[1].layer, rendered.dates)
           /\ Len(selectedLayersWithDateSupport(layers', serverAvailableDates'))
                 < Len(selectedLayersWithDateSupport(layers, serverAvailableDates)) ]_vars

\* C18: while the server table is empty no effect removes a layer from the
\* store, warns of no overlap or of missing data, or throws, whatever layers
\* the store holds.
C18_NothingRemovedBeforeServerDates ==
    [][ (serverAvailableDates = EmptyTable
            /\ last' \in {"default", "sync", "overlap", "closest"})
        => /\ Range(layers) \subseteq Range(layers')
           /\ \A i \in DOMAIN notifications' :
                 notifications'[i].kind \notin {"NoOverlap", "NoData"}
           /\ failed' = failed ]_vars

\* C19: the default-layer effect updates the URL or notifies only in its
\* first attempt, made while the URL has neither hazard nor baseline layer
\* ids: a default layer of the Layer Registry is written to the URL, any
\* other gives one 'Invalid default layer identifier' error and no URL
\* update; the attempt is never forgotten, and after it the effect changes
\* nothing.
C19_DefaultLayerAttemptedOnce ==
    [][ /\ defaultLayerAttempted => defaultLayerAttempted'
        /\ (defaultLayerAttempted' # defaultLayerAttempted) => last' = "default"
        /\ (last' = "default" /\ (url' # url \/ notifications' # <<>>))
           => /\ ~defaultLayerAttempted
              /\ defaultLayerAttempted'
              /\ urlLayerIds(url) = <<>>
              /\ IF defaultLayer \in LayerKeys
                 THEN /\ urlLayerIds(url') = <<defaultLayer>>
                      /\ url'.date = url.date
                      /\ notifications' = <<>>
                 ELSE /\ url' = url
                      /\ notifications' =
                            <<Note("error", "InvalidDefaultLayer", defaultLayer)>> ]_vars

\* C19 witness: the default-layer effect ran again after its attempt, with a
\* default layer configured and no layer id in the URL
C19_EffectRanAfterAttempt ==
    /\ last = "default"
    /\ rendered.attempted
    /\ defaultLayer # NoDefault
    /\ urlLayerIds(rendered.url) = <<>>

====
